---- MODULE Spec2Model ----
(***************************************************************************)
(* Model of src/water_quality.py: the Water Quality Index calculator       *)
(* (calculate_wqi), the pH analysis (analyze_ph), the sample comparison    *)
(* (compare_samples), the sample generator (generate_sample_data) and the  *)
(* time-series plot (plot_time_series).                                    *)
(*                                                                         *)
(* Python floats are IEEE-754 binary64 numbers.  They are modelled here    *)
(* bit for bit: a finite double is a sign, a 53-bit significand and a      *)
(* binary exponent, and every arithmetic operation rounds to nearest, ties *)
(* to even, as the hardware does.  Significands do not fit the model       *)
(* checker's 32-bit integers, so they are kept as sequences of 14-bit      *)
(* limbs, least significant first.                                         *)
(***************************************************************************)
EXTENDS Integers, Sequences, FiniteSets, TLC

(***************************************************************************)
(* Natural numbers of any size: little-endian sequences of limbs.          *)
(***************************************************************************)
LimbBits == 7 + 7
Base == 2^LimbBits

RECURSIVE BTrim(_)
BTrim(a) ==
  IF a = <<>> THEN a
  ELSE IF a[Len(a)] = 0 THEN BTrim(SubSeq(a, 1, Len(a) - 1)) ELSE a

BFromInt(n) ==
  BTrim(<<n % Base, (n \div Base) % Base, n \div (Base * Base)>>)

RECURSIVE BAddC(_, _, _)
BAddC(a, b, c) ==
  IF a = <<>> /\ b = <<>> THEN (IF c = 0 THEN <<>> ELSE <<c>>)
  ELSE LET x == IF a = <<>> THEN 0 ELSE Head(a)
           y == IF b = <<>> THEN 0 ELSE Head(b)
           s == x + y + c
       IN  <<s % Base>> \o BAddC(IF a = <<>> THEN a ELSE Tail(a),
                                 IF b = <<>> THEN b ELSE Tail(b),
                                 s \div Base)

BAdd(a, b) == BAddC(a, b, 0)

RECURSIVE BSubB(_, _, _)
BSubB(a, b, c) ==
  IF a = <<>> THEN <<>>
  ELSE LET y == IF b = <<>> THEN 0 ELSE Head(b)
           s == Head(a) - y - c
       IN  <<(s + Base) % Base>> \o BSubB(Tail(a),
                                          IF b = <<>> THEN b ELSE Tail(b),
                                          IF s < 0 THEN 1 ELSE 0)

\* a - b, for a >= b
BSub(a, b) == BTrim(BSubB(a, b, 0))

RECURSIVE BCmpFrom(_, _, _)
BCmpFrom(a, b, i) ==
  IF i = 0 THEN 0
  ELSE IF a[i] # b[i] THEN (IF a[i] < b[i] THEN -1 ELSE 1)
  ELSE BCmpFrom(a, b, i - 1)

\* -1, 0 or 1 as a < b, a = b, a > b
BCmp(a, b) ==
  IF Len(a) # Len(b) THEN (IF Len(a) < Len(b) THEN -1 ELSE 1)
  ELSE BCmpFrom(a, b, Len(a))

RECURSIVE BMulSmallC(_, _, _)
BMulSmallC(a, k, c) ==
  IF a = <<>> THEN (IF c = 0 THEN <<>> ELSE <<c>>)
  ELSE LET s == Head(a) * k + c
       IN  <<s % Base>> \o BMulSmallC(Tail(a), k, s \div Base)

\* a * k, for 0 <= k < Base
BMulSmall(a, k) == BTrim(BMulSmallC(a, k, 0))

RECURSIVE BMul(_, _)
BMul(a, b) ==
  IF a = <<>> \/ b = <<>> THEN <<>>
  ELSE BAdd(BMulSmall(a, Head(b)), BTrim(<<0>> \o BMul(a, Tail(b))))

RECURSIVE BDivSmallR(_, _, _)
BDivSmallR(a, k, r) ==
  IF a = <<>> THEN [q |-> <<>>, r |-> r]
  ELSE LET cur  == r * Base + a[Len(a)]
           rest == BDivSmallR(SubSeq(a, 1, Len(a) - 1), k, cur % k)
       IN  [q |-> rest.q \o <<cur \div k>>, r |-> rest.r]

\* quotient and remainder of a by k, for 0 < k <= Base
BDivTrim(d) == [q |-> BTrim(d.q), r |-> d.r]

BDivSmall(a, k) == BDivTrim(BDivSmallR(a, k, 0))

\* a * 2^n
BShl(a, n) ==
  IF a = <<>> THEN a
  ELSE BMulSmall([i \in 1..(n \div LimbBits) |-> 0] \o a, 2^(n % LimbBits))

\* floor(a / 2^n)
BShr(a, n) ==
  IF Len(a) <= n \div LimbBits THEN <<>>
  ELSE BDivSmall(SubSeq(a, (n \div LimbBits) + 1, Len(a)), 2^(n % LimbBits)).q

RECURSIVE BitLenInt(_)
BitLenInt(x) == IF x = 0 THEN 0 ELSE 1 + BitLenInt(x \div 2)

BBitLen(a) ==
  IF a = <<>> THEN 0 ELSE (Len(a) - 1) * LimbBits + BitLenInt(a[Len(a)])

(***************************************************************************)
(* IEEE-754 binary64.  A double is [s, m, e] with value (-1)^s * m * 2^e,  *)
(* where m = 0 (and e = 0, s = 0) or 2^52 <= m < 2^53.  The values the     *)
(* model computes stay far inside the exponent range, so overflow to       *)
(* infinity and gradual underflow do not arise.                            *)
(***************************************************************************)
Precision == 50 + 3

FZero == [s |-> 0, m |-> <<>>, e |-> 0]

\* a significand q1 of 53 or 54 bits with its exponent, as a double
FPack(s, q1, e) ==
  IF BBitLen(q1) > Precision
  THEN [s |-> s, m |-> BShr(q1, 1), e |-> e + 1]
  ELSE [s |-> s, m |-> q1, e |-> e]

\* q with the bits dropped below it standing at c = -1, 0, 1 against a half:
\* up when above, and on a tie when q is odd
FRoundUp(s, q, c, e) ==
  FPack(s, IF c > 0 \/ (c = 0 /\ q[1] % 2 = 1) THEN BAdd(q, <<1>>) ELSE q, e)

FRoundShift(s, M, E, sh, q) ==
  FRoundUp(s, q, BCmp(BShl(BSub(M, BShl(q, sh)), 1), BShl(<<1>>, sh)), E + sh)

FRoundLen(s, M, E, L) ==
  IF L <= Precision
  THEN [s |-> s, m |-> BShl(M, Precision - L), e |-> E - (Precision - L)]
  ELSE FRoundShift(s, M, E, L - Precision, BShr(M, L - Precision))

\* M * 2^E rounded to nearest, ties to even
FRound(s, M, E) == IF M = <<>> THEN FZero ELSE FRoundLen(s, M, E, BBitLen(M))

FNeg(x) == IF x.m = <<>> THEN x ELSE [x EXCEPT !.s = 1 - x.s]

FMul(x, y) ==
  FRound(IF x.s = y.s THEN 0 ELSE 1, BMul(x.m, y.m), x.e + y.e)

\* A * 2^e and B * 2^e with signs sa and sb, added
FAddAligned(sa, A, sb, B, e) ==
  IF sa = sb THEN FRound(sa, BAdd(A, B), e)
  ELSE IF BCmp(A, B) = 0 THEN FZero
  ELSE IF BCmp(A, B) > 0 THEN FRound(sa, BSub(A, B), e)
  ELSE FRound(sb, BSub(B, A), e)

FAddAt(x, y, e) ==
  FAddAligned(x.s, BShl(x.m, x.e - e), y.s, BShl(y.m, y.e - e), e)

FAdd(x, y) ==
  IF x.m = <<>> THEN y
  ELSE IF y.m = <<>> THEN x
  ELSE FAddAt(x, y, IF x.e < y.e THEN x.e ELSE y.e)

FSub(x, y) == FAdd(x, FNeg(y))

\* a quotient d.q with remainder d.r, at exponent e: the remainder only
\* tells whether bits were lost below the quotient
FQuotient(s, d, e) ==
  FRound(s, BAdd(BShl(d.q, 1), IF d.r = 0 THEN <<>> ELSE <<1>>), e - 1)

\* x / k for an integer 0 < k < Base
FDivInt(x, k) ==
  IF x.m = <<>> THEN FZero
  ELSE FQuotient(x.s, BDivSmall(BShl(x.m, 20), k), x.e - 20)

\* -1, 0 or 1 as x < y, x = y, x > y (significands are normalised, so
\* magnitudes compare by exponent first)
FCmpMag(x, y) ==
  IF x.e # y.e THEN (IF x.e < y.e THEN -1 ELSE 1) ELSE BCmp(x.m, y.m)

FCmp(x, y) ==
  IF x.m = <<>> THEN (IF y.m = <<>> THEN 0 ELSE IF y.s = 1 THEN 1 ELSE -1)
  ELSE IF y.m = <<>> THEN (IF x.s = 1 THEN -1 ELSE 1)
  ELSE IF x.s # y.s THEN (IF x.s = 1 THEN -1 ELSE 1)
  ELSE IF x.s = 0 THEN FCmpMag(x, y) ELSE FCmpMag(y, x)

FLt(x, y) == FCmp(x, y) < 0
FLe(x, y) == FCmp(x, y) <= 0
FGt(x, y) == FCmp(x, y) > 0

\* the double nearest to n / d, for integers n and 0 < d < Base: what the
\* Python parser makes of a decimal literal such as 0.6 = 6/10
FRat(n, d) ==
  IF n = 0 THEN FZero
  ELSE FQuotient(IF n < 0 THEN 1 ELSE 0,
                 BDivSmall(BShl(BFromInt(IF n < 0 THEN 0 - n ELSE n), 70), d), -70)

FInt(n) == FRat(n, 1)

\* the integer value of a number of at most two limbs
BToInt(a) ==
  IF a = <<>> THEN 0 ELSE IF Len(a) = 1 THEN a[1] ELSE a[1] + Base * a[2]

FmtRounded(neg, q, c) ==
  [neg |-> neg,
   tenths |-> BToInt(q) + (IF c > 0 \/ (c = 0 /\ q # <<>> /\ q[1] % 2 = 1)
                           THEN 1 ELSE 0)]

FmtShift(neg, N, sh, q) ==
  FmtRounded(neg, q, BCmp(BShl(BSub(N, BShl(q, sh)), 1), BShl(<<1>>, sh)))

FmtScaled(x, N) ==
  IF x.e >= 0 THEN [neg |-> x.s = 1, tenths |-> BToInt(BShl(N, x.e))]
  ELSE FmtShift(x.s = 1, N, 0 - x.e, BShr(N, 0 - x.e))

\* format(x, ".1f"): x to one decimal, correctly rounded from its exact
\* binary value (ties to even), as a sign and a number of tenths
FmtTenths(x) ==
  IF x.m = <<>> THEN [neg |-> FALSE, tenths |-> 0]
  ELSE FmtScaled(x, BMulSmall(x.m, 10))

(***************************************************************************)
(* The program state.                                                      *)
(*   rng     numpy's global generator, the only module-wide mutable state: *)
(*           the seed it was last seeded with and the number of variates   *)
(*           drawn since                                                   *)
(*   call    the operation in progress or just completed, with arguments   *)
(*   ret     its outcome: pending, a returned value or a raised exception  *)
(*   stdout  the lines the operation printed                               *)
(*   figure  the chart the operation showed                                *)
(*   frames  the activation records of concurrent calculate_wqi callers    *)
(***************************************************************************)
VARIABLES rng, call, ret, stdout, figure, frames

vars == <<rng, call, ret, stdout, figure, frames>>

NoCall == [op |-> "none"]
Pending == [kind |-> "pending"]
Returned(v) == [kind |-> "returned", value |-> v]
Raised(e) == [kind |-> "raised", exc |-> e]

(***************************************************************************)
(* calculate_wqi                                                           *)
(***************************************************************************)
DefaultTemperature == 20
ExcellentAbove == 80
GoodAbove == 60
FairAbove == 40

DOWeight == FRat(6, 10)
TurbidityWeight == FRat(4, 10)
Ten == FInt(10)
FDefaultTemperature == FInt(DefaultTemperature)
FExcellentAbove == FInt(ExcellentAbove)
FGoodAbove == FInt(GoodAbove)
FFairAbove == FInt(FairAbove)

\* a plausible slip: the result forced into the documented 0-100 range
Clamp(w) ==
  IF FLt(w, FZero) THEN FZero ELSE IF FGt(w, FRat(100, 1)) THEN FRat(100, 1) ELSE w

WqiFormulaClamped(turbidity, dissolved_oxygen) ==
  Clamp(FMul(FAdd(FMul(dissolved_oxygen, DOWeight),
                  FMul(FSub(Ten, turbidity), TurbidityWeight)), Ten))

\* a plausible slip: the two weights exchanged
WqiFormulaSwapped(turbidity, dissolved_oxygen) ==
  FMul(FAdd(FMul(dissolved_oxygen, TurbidityWeight),
            FMul(FSub(Ten, turbidity), DOWeight)), Ten)

\* a plausible slip: turbidity not inverted
WqiFormulaNotInverted(turbidity, dissolved_oxygen) ==
  FMul(FAdd(FMul(dissolved_oxygen, DOWeight),
            FMul(turbidity, TurbidityWeight)), Ten)

\* wqi = (dissolved_oxygen * 0.6 + (10 - turbidity) * 0.4) * 10
WqiFormula(turbidity, dissolved_oxygen) ==
  FMul(FAdd(FMul(dissolved_oxygen, DOWeight),
            FMul(FSub(Ten, turbidity), TurbidityWeight)), Ten)

\* a plausible slip: the thresholds taken inclusive
ClassifyInclusive(wqi) ==
  IF ~FLt(wqi, FExcellentAbove) THEN [status |-> "Excellent", emoji |-> "star"]
  ELSE IF ~FLt(wqi, FGoodAbove) THEN [status |-> "Good", emoji |-> "check"]
  ELSE IF ~FLt(wqi, FFairAbove) THEN [status |-> "Fair", emoji |-> "warning"]
  ELSE [status |-> "Poor", emoji |-> "cross"]

\* the if / elif chain: the first test that succeeds decides
Classify(wqi) ==
  IF FGt(wqi, FExcellentAbove) THEN [status |-> "Excellent", emoji |-> "star"]
  ELSE IF FGt(wqi, FGoodAbove) THEN [status |-> "Good", emoji |-> "check"]
  ELSE IF FGt(wqi, FFairAbove) THEN [status |-> "Fair", emoji |-> "warning"]
  ELSE [status |-> "Poor", emoji |-> "cross"]

\* the nine lines of the report
WqiReport(turbidity, dissolved_oxygen, temperature, wqi, c) ==
  << [line |-> "rule"],
     [line |-> "WATER QUALITY INDEX"],
     [line |-> "rule"],
     [line |-> "Turbidity", shown |-> FmtTenths(turbidity)],
     [line |-> "Dissolved Oxygen", shown |-> FmtTenths(dissolved_oxygen)],
     [line |-> "Temperature", shown |-> FmtTenths(temperature)],
     [line |-> "Water Quality Index", shown |-> FmtTenths(wqi)],
     [line |-> "Status", emoji |-> c.emoji, status |-> c.status],
     [line |-> "rule"] >>

\* a plausible slip: inputs outside their nominal ranges rejected
\* the end of the call: the report is printed, the pair returned
WqiOutcome(turbidity, dissolved_oxygen, temperature, wqi, c) ==
  [ret |-> Returned(<<wqi, c.status>>),
   out |-> WqiReport(turbidity, dissolved_oxygen, temperature, wqi, c)]

WqiClassified(turbidity, dissolved_oxygen, temperature, wqi) ==
  WqiOutcome(turbidity, dissolved_oxygen, temperature, wqi, Classify(wqi))

\* a plausible slip: inputs outside their nominal ranges rejected
calculate_wqi_checked(turbidity, dissolved_oxygen, temperature) ==
  IF FLt(turbidity, FZero) \/ FGt(turbidity, Ten) \/ FLt(dissolved_oxygen, FZero)
  THEN [ret |-> Raised("ValueError"), out |-> <<>>]
  ELSE WqiClassified(turbidity, dissolved_oxygen, temperature,
                     WqiFormula(turbidity, dissolved_oxygen))

\* the whole call: the index, then the status, then the report and return
calculate_wqi(turbidity, dissolved_oxygen, temperature) ==
  WqiClassified(turbidity, dissolved_oxygen, temperature,
                WqiFormula(turbidity, dissolved_oxygen))

(***************************************************************************)
(* numpy's global generator.  Its output is a deterministic function of    *)
(* the seed and of how much has been drawn since seeding; the generator is *)
(* seeded from operating-system entropy when numpy is imported.  The       *)
(* variates themselves are stand-ins for the Mersenne Twister's: a fixed   *)
(* table read at a place the seed and the position decide.                 *)
(***************************************************************************)
FixedSeed == 42

OsSeeds == {1001, 1003}

StdNormalTable ==
  << FRat(-125, 100), FRat(50, 100), FRat(-30, 100), FRat(175, 100), FRat(8, 100) >>

Uniform01Table ==
  << FRat(125, 1000), FRat(50, 100), FRat(90, 100), FRat(3, 100), FRat(73, 100) >>

StdNormal(seed, i) == StdNormalTable[((seed + 2 * i) % Len(StdNormalTable)) + 1]

Uniform01(seed, i) == Uniform01Table[((seed + 3 * i) % Len(Uniform01Table)) + 1]

\* np.random.seed(s)
NpSeed(s) == [seed |-> s, pos |-> 0]

\* the generator after n more variates
NpAdvance(g, n) == [g EXCEPT !.pos = @ + n]

\* np.random.normal(loc, scale, size): loc + scale * z for each variate z
NpNormal(g, loc, scale, size) ==
  [i \in 1..size |-> FAdd(loc, FMul(scale, StdNormal(g.seed, g.pos + i)))]

\* np.random.uniform(low, high, size): low + (high - low) * u
NpUniform(g, low, high, size) ==
  [i \in 1..size |-> FAdd(low, FMul(FSub(high, low), Uniform01(g.seed, g.pos + i)))]

RECURSIVE NpSumFrom(_, _, _)
NpSumFrom(a, i, acc) ==
  IF i > Len(a) THEN acc ELSE NpSumFrom(a, i + 1, FAdd(acc, a[i]))

\* np.mean of a non-empty array: the elements added left to right, divided
\* by their number
NpMean(a) == FDivInt(NpSumFrom(a, 1, FZero), Len(a))

(***************************************************************************)
(* analyze_ph                                                              *)
(***************************************************************************)
SafeLow == FRat(65, 10)
SafeHigh == FRat(85, 10)

\* a plausible slip: the ends of the safe range excluded
PhVerdictExclusive(avg_ph) ==
  IF FLt(SafeLow, avg_ph) /\ FLt(avg_ph, SafeHigh) THEN "within safe range"
  ELSE "outside safe range"

\* if 6.5 <= avg_ph <= 8.5
PhVerdict(avg_ph) ==
  IF FLe(SafeLow, avg_ph) /\ FLe(avg_ph, SafeHigh) THEN "within safe range"
  ELSE "outside safe range"

PhReportHead(samples) ==
  << [line |-> "rule"], [line |-> "pH ANALYSIS RESULTS"], [line |-> "rule"],
     [line |-> "Number of samples", shown |-> samples],
     [line |-> "Average pH"], [line |-> "Standard deviation"] >>

\* the whole call.  With no samples np.min has nothing to reduce and raises
\* once the first statistics are printed, before the verdict and the chart.
PhOutcome(g, samples, ph_levels) ==
  IF samples = 0
  THEN [rng |-> NpAdvance(g, samples), ret |-> Raised("ValueError"),
        out |-> PhReportHead(samples), fig |-> "none"]
  ELSE [rng |-> NpAdvance(g, samples), ret |-> Returned(ph_levels),
        out |-> PhReportHead(samples)
                  \o << [line |-> "pH Range"],
                        [line |-> PhVerdict(NpMean(ph_levels))] >>,
        fig |-> "ph_histogram"]

analyze_ph(g, samples, mean_ph, std_dev) ==
  PhOutcome(g, samples, NpNormal(g, mean_ph, std_dev, samples))

(***************************************************************************)
(* compare_samples, generate_sample_data, plot_time_series                 *)
(***************************************************************************)
compare_samples(sample_a, sample_b, param_name) ==
  [ret |-> Returned("None"),
   out |-> << [line |-> "COMPARISON", shown |-> param_name], [line |-> "rule"],
              [line |-> "Sample A"], [line |-> "Sample B"],
              [line |-> "Difference"] >>,
   fig |-> "comparison"]

PhLoc == FRat(72, 10)
PhScale == FRat(3, 10)
TurbidityLow == FInt(2)
TurbidityHigh == FInt(8)
DOLoc == FRat(85, 10)
DOScale == FRat(15, 10)
TemperatureLoc == FInt(18)
TemperatureScale == FInt(3)

\* the four arrays drawn one after the other from generator g
SampleArrays(g, days) ==
  [ph               |-> NpNormal(g, PhLoc, PhScale, days),
   turbidity        |-> NpUniform(NpAdvance(g, days), TurbidityLow, TurbidityHigh, days),
   dissolved_oxygen |-> NpNormal(NpAdvance(g, 2 * days), DOLoc, DOScale, days),
   temperature      |-> NpNormal(NpAdvance(g, 3 * days), TemperatureLoc,
                                 TemperatureScale, days)]

\* a plausible slip: the seed call left out
generate_sample_data_unseeded(g, location, days) ==
  [rng |-> NpAdvance(g, 4 * days),
   ret |-> Returned(SampleArrays(g, days)),
   out |-> << [line |-> "Generated", days |-> days, location |-> location],
              [line |-> "Parameters"] >>]

\* the whole call: the global generator is seeded, then drawn from
generate_sample_data(g, location, days) ==
  [rng |-> NpAdvance(NpSeed(FixedSeed), 4 * days),
   ret |-> Returned(SampleArrays(NpSeed(FixedSeed), days)),
   out |-> << [line |-> "Generated", days |-> days, location |-> location],
              [line |-> "Parameters"] >>]

plot_time_series(data, title) ==
  [ret |-> Returned("None"), out |-> <<>>, fig |-> "time_series"]

(***************************************************************************)
(* SpecWqi: calculate_wqi as a function.  The initial states are the calls *)
(* about to be made, one for each combination of arguments; the action     *)
(* runs the call.                                                          *)
(***************************************************************************)
MaxTurbidityFifths == 55
MaxDOFifths == 55
MaxNegDOFifths == 5

\* turbidity 0.0, 0.2, ... past the nominal 10, and two values whose index
\* rounds away from the decimal result
TurbidityInputs ==
  {FRat(2 * k, 10) : k \in 0..MaxTurbidityFifths} \cup {FRat(61, 10), FRat(82, 10)}

\* dissolved oxygen from below 0 upwards
DOInputs ==
  {FRat(2 * k, 10) : k \in (0 - MaxNegDOFifths)..MaxDOFifths}
    \cup {FRat(74, 10), FRat(85, 10), FRat(88, 10)}

TemperatureInputs == {FDefaultTemperature, FRat(-45, 10)}

OsRng == [seed |-> 1001, pos |-> 0]

InitWqi ==
  /\ rng = OsRng
  /\ call \in [op : {"calculate_wqi"}, turbidity : TurbidityInputs,
               dissolved_oxygen : DOInputs, temperature : TemperatureInputs]
  /\ ret = Pending
  /\ stdout = <<>>
  /\ figure = "none"
  /\ frames = <<>>

RunWqi ==
  /\ call.op = "calculate_wqi"
  /\ ret = Pending
  /\ \E r \in {calculate_wqi(call.turbidity, call.dissolved_oxygen, call.temperature)} :
         /\ ret' = r.ret
         /\ stdout' = r.out
  /\ UNCHANGED <<rng, call, figure, frames>>

NextWqi == RunWqi

SpecWqi == InitWqi /\ [][NextWqi]_vars

(***************************************************************************)
(* Spec: a session with the module.  One operation runs at a time, from    *)
(* its call to its return or exception; the caller then goes on to the     *)
(* next.  The generator starts as numpy seeded it from entropy.            *)
(***************************************************************************)
MaxSamples == 3
MaxDays == 2
MaxDraws == 12

NoRet == [kind |-> "none"]

PhMeans == {FRat(649, 100), FRat(65, 10), FInt(7), FRat(85, 10), FRat(851, 100)}
PhStdDevs == {FZero, FRat(5, 10)}
SessionTurbidity == {FInt(3), FInt(8)}
SessionDO == {FRat(85, 10), FInt(2)}
CompareArrays == {<<FInt(7)>>, <<FRat(65, 10), FRat(85, 10)>>}
Locations == {"River", "Lake"}

Init ==
  /\ rng \in {NpSeed(s) : s \in OsSeeds}
  /\ call = NoCall
  /\ ret = NoRet
  /\ stdout = <<>>
  /\ figure = "none"
  /\ frames = <<>>

AnalyzePh(samples, mean_ph, std_dev) ==
  /\ call = NoCall
  /\ rng.pos + samples <= MaxDraws
  /\ \E r \in {analyze_ph(rng, samples, mean_ph, std_dev)} :
         /\ rng' = r.rng
         /\ ret' = r.ret
         /\ stdout' = r.out
         /\ figure' = r.fig
  /\ call' = [op |-> "analyze_ph", samples |-> samples, mean_ph |-> mean_ph,
              std_dev |-> std_dev]
  /\ UNCHANGED frames

CalculateWqi(turbidity, dissolved_oxygen, temperature) ==
  /\ call = NoCall
  /\ \E r \in {calculate_wqi(turbidity, dissolved_oxygen, temperature)} :
         /\ ret' = r.ret
         /\ stdout' = r.out
  /\ call' = [op |-> "calculate_wqi", turbidity |-> turbidity,
              dissolved_oxygen |-> dissolved_oxygen, temperature |-> temperature]
  /\ UNCHANGED <<rng, figure, frames>>

CompareSamples(sample_a, sample_b, param_name) ==
  /\ call = NoCall
  /\ \E r \in {compare_samples(sample_a, sample_b, param_name)} :
         /\ ret' = r.ret
         /\ stdout' = r.out
         /\ figure' = r.fig
  /\ call' = [op |-> "compare_samples", sample_a |-> sample_a,
              sample_b |-> sample_b, param_name |-> param_name]
  /\ UNCHANGED <<rng, frames>>

GenerateSampleData(location, days) ==
  /\ call = NoCall
  /\ 4 * days <= MaxDraws
  /\ \E r \in {generate_sample_data(rng, location, days)} :
         /\ rng' = r.rng
         /\ ret' = r.ret
         /\ stdout' = r.out
  /\ call' = [op |-> "generate_sample_data", location |-> location, days |-> days]
  /\ UNCHANGED <<figure, frames>>

PlotTimeSeries(data, title) ==
  /\ call = NoCall
  /\ \E r \in {plot_time_series(data, title)} :
         /\ ret' = r.ret
         /\ stdout' = r.out
         /\ figure' = r.fig
  /\ call' = [op |-> "plot_time_series", data |-> data, title |-> title]
  /\ UNCHANGED <<rng, frames>>

\* the caller takes the outcome and the chart window is closed
Return ==
  /\ call # NoCall
  /\ call' = NoCall
  /\ ret' = NoRet
  /\ stdout' = <<>>
  /\ figure' = "none"
  /\ UNCHANGED <<rng, frames>>

Next ==
  \/ \E samples \in 0..MaxSamples, mean_ph \in PhMeans, std_dev \in PhStdDevs :
       AnalyzePh(samples, mean_ph, std_dev)
  \/ \E t \in SessionTurbidity, d \in SessionDO :
       CalculateWqi(t, d, FDefaultTemperature)
  \/ \E a \in CompareArrays, b \in CompareArrays : CompareSamples(a, b, "pH")
  \/ \E location \in Locations, days \in 0..MaxDays :
       GenerateSampleData(location, days)
  \/ \E days \in 0..MaxDays :
       PlotTimeSeries(SampleArrays(NpSeed(FixedSeed), days), "Water Quality Over Time")
  \/ Return

Spec == Init /\ [][Next]_vars

(***************************************************************************)
(* SpecConc: callers running calculate_wqi at the same time, with no       *)
(* synchronisation.  Each caller has its own activation record: its        *)
(* arguments, its locals wqi and status/emoji, and the statement it is at. *)
(* Callers take turns statement by statement in any order.  The console is *)
(* the one thing they share; a report is appended to it whole, since       *)
(* nothing in the module reads the console back.                           *)
(***************************************************************************)
NumCallers == 2

Callers == 1..NumCallers

Unbound == [unbound |-> TRUE]

ConcInputs ==
  { [turbidity |-> FInt(3), dissolved_oxygen |-> FRat(85, 10),
     temperature |-> FDefaultTemperature],
    [turbidity |-> FInt(8), dissolved_oxygen |-> FInt(2),
     temperature |-> FDefaultTemperature],
    [turbidity |-> FRat(105, 10), dissolved_oxygen |-> FRat(-5, 10),
     temperature |-> FRat(-45, 10)] }

Frame(in) ==
  [pc |-> "line84", turbidity |-> in.turbidity,
   dissolved_oxygen |-> in.dissolved_oxygen, temperature |-> in.temperature,
   wqi |-> Unbound, c |-> Unbound, ret |-> Pending]

InitConc ==
  /\ rng = OsRng
  /\ call = NoCall
  /\ ret = NoRet
  /\ stdout = <<>>
  /\ figure = "none"
  /\ frames \in [Callers -> {Frame(in) : in \in ConcInputs}]

\* a plausible slip: wqi kept in a module-level variable, one for all callers
WqiLine84Global(self) ==
  /\ frames[self].pc = "line84"
  /\ \E w \in {WqiFormula(frames[self].turbidity, frames[self].dissolved_oxygen)} :
       frames' = [c \in Callers |->
                    IF c = self THEN [frames[c] EXCEPT !.wqi = w, !.pc = "line87"]
                    ELSE [frames[c] EXCEPT !.wqi = w]]
  /\ UNCHANGED <<rng, call, ret, stdout, figure>>

\* wqi = (dissolved_oxygen * 0.6 + (10 - turbidity) * 0.4) * 10
WqiLine84(self) ==
  /\ frames[self].pc = "line84"
  /\ frames' = [frames EXCEPT
                  ![self].wqi = WqiFormula(frames[self].turbidity,
                                           frames[self].dissolved_oxygen),
                  ![self].pc = "line87"]
  /\ UNCHANGED <<rng, call, ret, stdout, figure>>

\* the if / elif chain setting status and emoji
WqiLine87(self) ==
  /\ frames[self].pc = "line87"
  /\ frames' = [frames EXCEPT ![self].c = Classify(frames[self].wqi),
                              ![self].pc = "line100"]
  /\ UNCHANGED <<rng, call, ret, stdout, figure>>

\* the report
WqiLine100(self) ==
  /\ frames[self].pc = "line100"
  /\ stdout' = stdout \o WqiReport(frames[self].turbidity,
                                   frames[self].dissolved_oxygen,
                                   frames[self].temperature,
                                   frames[self].wqi, frames[self].c)
  /\ frames' = [frames EXCEPT ![self].pc = "line110"]
  /\ UNCHANGED <<rng, call, ret, figure>>

\* return wqi, status
WqiLine110(self) ==
  /\ frames[self].pc = "line110"
  /\ frames' = [frames EXCEPT
                  ![self].ret = Returned(<<frames[self].wqi, frames[self].c.status>>),
                  ![self].pc = "done"]
  /\ UNCHANGED <<rng, call, ret, stdout, figure>>

NextConc ==
  \E self \in Callers :
    \/ WqiLine84(self)
    \/ WqiLine87(self)
    \/ WqiLine100(self)
    \/ WqiLine110(self)

SpecConc == InitConc /\ [][NextConc]_vars

(***************************************************************************)
(* Properties of calculate_wqi, checked under SpecWqi.                     *)
(***************************************************************************)
WqiDone == call.op = "calculate_wqi" /\ ret # Pending
WqiReturned == call.op = "calculate_wqi" /\ ret.kind = "returned"
Index == ret.value[1]
Status == ret.value[2]
\* the doubles the properties name
F100 == FInt(100)
F80 == FInt(80)
F79 == FInt(79)
F60 == FInt(60)
F40 == FInt(40)
F20 == FInt(20)
F10 == FInt(10)
F8 == FInt(8)
F3 == FInt(3)
F2 == FInt(2)
F0p6 == FRat(6, 10)
F0p4 == FRat(4, 10)
F8p5 == FRat(85, 10)
F6p1 == FRat(61, 10)
F7p4 == FRat(74, 10)

\* C1: the index returned is exactly (d*0.6 + (10 - t)*0.4)*10, evaluated in
\* double arithmetic in that order, for every turbidity t, dissolved oxygen d
\* and temperature: nothing clamps it and the temperature plays no part.
C1_IndexIsTheFormula ==
  WqiDone =>
    /\ ret.kind = "returned"
    /\ Index = FMul(FAdd(FMul(call.dissolved_oxygen, F0p6),
                         FMul(FSub(F10, call.turbidity), F0p4)),
                    F10)

\* an index above 100 is returned as it is, at a temperature other than the default
C1_Witness ==
  /\ WqiReturned
  /\ FGt(Index, F100)
  /\ call.temperature # FDefaultTemperature

\* C2: the status is decided by the index alone, top-down: above 80
\* Excellent, above 60 up to 80 Good, above 40 up to 60 Fair, 40 or less
\* Poor; an index of exactly 80 is Good, 60 Fair, 40 Poor.
C2_StatusFromIndex ==
  WqiDone =>
    /\ ret.kind = "returned"
    /\ Status \in {"Excellent", "Good", "Fair", "Poor"}
    /\ FGt(Index, F80) => Status = "Excellent"
    /\ (FGt(Index, F60) /\ FLe(Index, F80)) => Status = "Good"
    /\ (FGt(Index, F40) /\ FLe(Index, F60)) => Status = "Fair"
    /\ FLe(Index, F40) => Status = "Poor"
    /\ Index = F80 => Status = "Good"
    /\ Index = F60 => Status = "Fair"
    /\ Index = F40 => Status = "Poor"

\* an index of exactly 80 has been classified
C2_Witness == WqiReturned /\ Index = F80 /\ Status = "Good"

\* indexes of exactly 60 and exactly 40 occur as well
C2_WitnessSixty == WqiReturned /\ Index = F60 /\ Status = "Fair"
C2_WitnessForty == WqiReturned /\ Index = F40 /\ Status = "Poor"

\* an index a rounding step above 60, where the decimal result is 60
C2_WitnessRounded ==
  /\ WqiReturned
  /\ call.turbidity = F6p1 /\ call.dissolved_oxygen = F7p4
  /\ FGt(Index, F60) /\ FmtTenths(Index).tenths = 600
  /\ Status = "Good"

\* C3: at every temperature, turbidity 0 with dissolved oxygen 10 gives
\* index 100, and turbidity 10 with dissolved oxygen 0 gives index 0.
C3_Extremes ==
  WqiDone =>
    /\ (call.turbidity = FZero /\ call.dissolved_oxygen = F10)
         => (ret.kind = "returned" /\ Index = F100)
    /\ (call.turbidity = F10 /\ call.dissolved_oxygen = FZero)
         => (ret.kind = "returned" /\ Index = FZero)

\* the upper extreme has been computed at a temperature other than the default
C3_Witness ==
  /\ WqiReturned
  /\ call.turbidity = FZero /\ call.dissolved_oxygen = F10
  /\ call.temperature # FDefaultTemperature

\* the lower extreme occurs as well
C3_WitnessLow ==
  WqiReturned /\ call.turbidity = F10 /\ call.dissolved_oxygen = FZero

\* C5: for turbidity on the documented 0-10 scale and dissolved oxygen not
\* below 0, the index returned lies within 0 to 100.
C5_IndexWithinRange ==
  ( /\ WqiDone
    /\ FLe(FZero, call.turbidity) /\ FLe(call.turbidity, F10)
    /\ FLe(FZero, call.dissolved_oxygen) )
  => (ret.kind = "returned" /\ FLe(FZero, Index) /\ FLe(Index, F100))

\* C6 as stated: for turbidity above 10 the index returned is above 100.
C6_TurbidityDrivesIndexUp ==
  (WqiDone /\ FGt(call.turbidity, F10))
  => (ret.kind = "returned" /\ FGt(Index, F100))

\* C6 amended: for turbidity above 10 the turbidity term is negative, so the
\* index is driven downwards: it is at most dissolved_oxygen*0.6*10, which
\* keeps it below 100 for dissolved oxygen up to 10, and it is below 0 when
\* dissolved oxygen is 0 or less.
C6_TurbidityDrivesIndexDown ==
  (WqiDone /\ FGt(call.turbidity, F10))
  => /\ ret.kind = "returned"
     /\ FLe(Index, FMul(FMul(call.dissolved_oxygen, F0p6), F10))
     /\ FLe(call.dissolved_oxygen, F10) => FLt(Index, F100)
     /\ FLe(call.dissolved_oxygen, FZero) => FLt(Index, FZero)

\* a turbidity above 10 with dissolved oxygen 0 has been evaluated
C6_Witness ==
  /\ WqiReturned
  /\ FGt(call.turbidity, F10)
  /\ call.dissolved_oxygen = FZero

\* C7: every call completes and returns an (index, status) pair, whatever
\* the arguments, in or out of their nominal ranges; none is rejected.
C7_NoErrorOutcome ==
  /\ (call.op = "calculate_wqi" /\ ret = Pending) =>
       calculate_wqi(call.turbidity, call.dissolved_oxygen,
                     call.temperature).ret.kind = "returned"
  /\ WqiDone =>
       /\ ret.kind = "returned"
       /\ Len(ret.value) = 2
       /\ Status \in {"Excellent", "Good", "Fair", "Poor"}

\* a call with turbidity above 10 and dissolved oxygen below 0 has returned
C7_Witness ==
  /\ WqiReturned
  /\ FGt(call.turbidity, F10)
  /\ FLt(call.dissolved_oxygen, FZero)

\* C8: turbidity 3.0, dissolved oxygen 8.5, temperature 20 gives index 79.0
\* and status Good; turbidity 8.0, dissolved oxygen 2.0 at the default
\* temperature gives index 20.0 and status Poor.
C8_WorkedExamples ==
  WqiDone =>
    /\ ( /\ call.turbidity = F3
         /\ call.dissolved_oxygen = F8p5
         /\ call.temperature = F20 )
       => (ret.kind = "returned" /\ Index = F79 /\ Status = "Good")
    /\ ( /\ call.turbidity = F8
         /\ call.dissolved_oxygen = F2
         /\ call.temperature = FDefaultTemperature )
       => (ret.kind = "returned" /\ Index = F20 /\ Status = "Poor")

\* the first example has been run
C8_Witness ==
  /\ WqiReturned
  /\ call.turbidity = F3
  /\ call.dissolved_oxygen = F8p5
  /\ call.temperature = F20

\* the second example occurs as well
C8_WitnessSecond ==
  /\ WqiReturned
  /\ call.turbidity = F8
  /\ call.dissolved_oxygen = F2
  /\ call.temperature = FDefaultTemperature

(***************************************************************************)
(* Properties of analyze_ph and generate_sample_data, checked under Spec.  *)
(***************************************************************************)
\* -1, 0 or 1 as the positive double x is below, at or above n / d, decided
\* on the exact binary value of x
CmpRational(x, n, d) ==
  IF x.m = <<>> \/ x.s = 1 THEN -1
  ELSE IF x.e >= 0 THEN BCmp(BShl(BMulSmall(x.m, d), x.e), BFromInt(n))
  ELSE BCmp(BMulSmall(x.m, d), BShl(BFromInt(n), 0 - x.e))

PhAnalysed == call.op = "analyze_ph" /\ ret.kind = "returned"
avg_ph == NpMean(ret.value)
Printed(text) == \E i \in 1..Len(stdout) : stdout[i].line = text

\* C4: the mean pH is reported safe exactly when 6.5 <= mean <= 8.5, both
\* ends included: 6.5 and 8.5 are safe, 6.49 and 8.51 are not, and just one
\* of the two messages is printed.
C4_SafeRangeInclusive ==
  PhAnalysed =>
    /\ Printed("within safe range")
         <=> (CmpRational(avg_ph, 13, 2) >= 0 /\ CmpRational(avg_ph, 17, 2) <= 0)
    /\ Printed("within safe range") <=> ~Printed("outside safe range")
    /\ avg_ph = FRat(65, 10) => Printed("within safe range")
    /\ avg_ph = FRat(85, 10) => Printed("within safe range")
    /\ avg_ph = FRat(649, 100) => Printed("outside safe range")
    /\ avg_ph = FRat(851, 100) => Printed("outside safe range")

\* a mean of exactly 6.5 over more than one sample has been reported safe
C4_Witness ==
  /\ PhAnalysed
  /\ call.samples > 1
  /\ avg_ph = FRat(65, 10)
  /\ Printed("within safe range")

\* the other three named means occur as well, and so do means off the grid
C4_WitnessHigh == PhAnalysed /\ avg_ph = FRat(85, 10) /\ Printed("within safe range")
C4_WitnessBelow == PhAnalysed /\ avg_ph = FRat(649, 100) /\ Printed("outside safe range")
C4_WitnessAbove == PhAnalysed /\ avg_ph = FRat(851, 100) /\ Printed("outside safe range")
C4_WitnessSpread ==
  /\ PhAnalysed /\ call.std_dev # FZero /\ call.samples = MaxSamples
  /\ Printed("outside safe range")

Generated == call.op = "generate_sample_data" /\ ret.kind = "returned"

\* the first half of C10: whatever ran before and whatever the location,
\* the four arrays are those the fixed seed gives for that number of days
GenerationReproducible ==
  Generated =>
    /\ ret.value = SampleArrays([seed |-> 42, pos |-> 0], call.days)
    /\ \A k \in {"ph", "turbidity", "dissolved_oxygen", "temperature"} :
         Len(ret.value[k]) = call.days

\* C10: generation returns the same four arrays of length days for the same
\* days after any earlier operations and for any location, and the fixed
\* seed serves that generation alone: no other operation draws from the
\* generator as that seed left it, so analyze_ph's samples are not decided
\* by it.
C10_SeedConfinedToGeneration ==
  /\ GenerationReproducible
  /\ (call.op = "analyze_ph" /\ call.samples > 0) => rng.seed # 42

(***************************************************************************)
(* Properties of concurrent callers, checked under SpecConc.               *)
(***************************************************************************)
\* C9: with any number of callers interleaved in any order, each caller is
\* returned the (index, status) its own arguments determine, and the calls
\* leave the module's shared state, the generator, as it was.
C9_Reentrant ==
  /\ rng = OsRng
  /\ figure = "none"
  /\ \A self \in Callers :
       frames[self].pc = "done" =>
         frames[self].ret = calculate_wqi(frames[self].turbidity,
                                          frames[self].dissolved_oxygen,
                                          frames[self].temperature).ret

\* two callers with different arguments have both returned, different
\* results, after the second caller's report reached the console first
C9_Witness ==
  /\ \A self \in Callers : frames[self].pc = "done"
  /\ frames[1].ret # frames[2].ret
  /\ Len(stdout) >= 7
  /\ stdout[7].shown = FmtTenths(frames[2].ret.value[1])
  /\ stdout[7].shown # FmtTenths(frames[1].ret.value[1])
====
